---------------------------- MODULE Spec2Model ----------------------------
(***************************************************************************)
(* The expression evaluator of src/main.go: Calc, convertToPostfix and     *)
(* calculate, as a state machine.                                          *)
(*                                                                         *)
(* An expression is a sequence of characters, each a one-element string    *)
(* (the two-byte character is named "U+00E9").  One invocation of Calc is  *)
(* a frame: the locals of Calc, convertToPostfix and calculate together    *)
(* with the position of the invocation.  `calls' maps every running        *)
(* invocation to its frame, `operations' is the package-level table.       *)
(*                                                                         *)
(* Numbers are exact rationals [num, den]; the rounding of float64 is not  *)
(* modelled (the expressions reached within the bounds stay far from       *)
(* overflow and underflow).                                                *)
(***************************************************************************)
EXTENDS Integers, Sequences, FiniteSets, TLC

VARIABLES calls, operations

vars == <<calls, operations>>

(***************************************************************************)
(* Bounds of the model.                                                    *)
(***************************************************************************)
\* Every expression of at most MaxLen characters over Alphabet is an input.
MaxLen == 3
\* Every well-formed infix expression of at most MaxInfixLen characters
\* over InfixDigits is an input.
MaxInfixLen == 7
\* Every sequence of at most MaxParenLen characters over ParenAlphabet is
\* an input.
MaxParenLen == 6
\* Number of concurrent invocations of Calc in SpecConc.
NumCalls == 2

Procs == 1..NumCalls

(***************************************************************************)
(* Characters.                                                             *)
(***************************************************************************)
Digits == {"0", "1", "2", "3", "4", "5", "6", "7", "8", "9"}

Space == " "

Tab == "\t"

\* A character whose UTF-8 encoding takes two bytes.
TwoByteChar == "U+00E9"

Alphabet == {"0", "1", "2", "+", "-", "*", "/", "(", ")", Space, Tab, TwoByteChar}

InfixDigits == {"0", "1", "2"}

\* len(expression) counts bytes.
RECURSIVE ByteLen(_)
ByteLen(s) ==
    IF s = <<>> THEN 0
    ELSE (IF Head(s) = TwoByteChar THEN 2 ELSE 1) + ByteLen(Tail(s))

\* strings.ReplaceAll(expression, " ", "")
RECURSIVE ReplaceAllSpaces(_)
ReplaceAllSpaces(s) ==
    IF s = <<>> THEN <<>>
    ELSE IF Head(s) = Space THEN ReplaceAllSpaces(Tail(s))
    ELSE <<Head(s)>> \o ReplaceAllSpaces(Tail(s))

\* strings.Split(s, ""): one token per character, none for the empty string.
SplitChars(s) == [k \in 1..Len(s) |-> s[k]]

Tokenize(expression) == SplitChars(ReplaceAllSpaces(expression))

(***************************************************************************)
(* float64 values, as exact rationals in lowest terms with den > 0.        *)
(***************************************************************************)
Abs(n) == IF n < 0 THEN -n ELSE n

RECURSIVE GCD(_, _)
GCD(a, b) == IF b = 0 THEN a ELSE GCD(b, a % b)

Rat(n, d) ==
    LET g == GCD(Abs(n), Abs(d))
        s == IF d < 0 THEN -1 ELSE 1
    IN  [num |-> (s * n) \div g, den |-> (s * d) \div g]

Zero == Rat(0, 1)

Add(a, b) == Rat(a.num * b.den + b.num * a.den, a.den * b.den)

Sub(a, b) == Rat(a.num * b.den - b.num * a.den, a.den * b.den)

Mul(a, b) == Rat(a.num * b.num, a.den * b.den)

\* a/b for b # 0.
Quo(a, b) == Rat(a.num * b.den, a.den * b.num)

DigitValue(c) ==
    CASE c = "0" -> 0 [] c = "1" -> 1 [] c = "2" -> 2 [] c = "3" -> 3
      [] c = "4" -> 4 [] c = "5" -> 5 [] c = "6" -> 6 [] c = "7" -> 7
      [] c = "8" -> 8 [] c = "9" -> 9

\* strconv.ParseFloat on a one-character token: only a digit parses.
ParseFloatOk(token) == token \in Digits

ParseFloat(token) == Rat(DigitValue(token), 1)

(***************************************************************************)
(* Errors.                                                                 *)
(***************************************************************************)
Nil == "nil"

ErrInvalidExpression == "invalid expression"

ErrDivisionByZero == "division by zero"

ErrExpressionSyntax == "expression is not correct"

(***************************************************************************)
(* The operations table.                                                   *)
(***************************************************************************)
OperationsTable == ("+" :> 1) @@ ("-" :> 1) @@ ("*" :> 2) @@ ("/" :> 2)

isOperator(s) == s \in DOMAIN operations

\* A missing key reads as the zero value.
precedence(op) == IF op \in DOMAIN operations THEN operations[op] ELSE 0

(***************************************************************************)
(* Frames.                                                                 *)
(***************************************************************************)
\* The frame of an invocation that has not run yet: i and j are the
\* positions of the loops of convertToPostfix and calculate, 0 before the
\* function is entered.
NewFrame(expression) ==
    [pc |-> "Calc", expression |-> expression, tokens |-> <<>>,
     i |-> 0, stack |-> <<>>, output |-> <<>>,
     postfix |-> <<>>, j |-> 0, vstack |-> <<>>,
     result |-> Zero, err |-> Nil]

\* A slot in which no invocation runs.
Idle == [NewFrame(<<>>) EXCEPT !.pc = "idle"]

\* return value, err from Calc
Return(f, value, err) == [f EXCEPT !.pc = "done", !.result = value, !.err = err]

\* An index out of range stops the invocation with a run-time panic.
Panic(f) == [f EXCEPT !.pc = "panic"]

Top(s) == s[Len(s)]

Pop(s) == SubSeq(s, 1, Len(s) - 1)


(***************************************************************************)
(* Calc, up to the call of convertToPostfix.                               *)
(***************************************************************************)
MinLength == 3

\* Mutant: the minimum length is off by one.
TooShortOffByOne(expression) == ByteLen(expression) < MinLength - 1

TooShort(expression) == ByteLen(expression) < MinLength

CalcEntryStep(f) ==
    IF TooShort(f.expression)
    THEN Return(f, Zero, ErrExpressionSyntax)
    ELSE [f EXCEPT !.pc = "convertToPostfix",
                   !.tokens = Tokenize(f.expression),
                   !.i = 1, !.stack = <<>>, !.output = <<>>]

(***************************************************************************)
(* convertToPostfix.                                                       *)
(***************************************************************************)
\* Mutant: the error of convertToPostfix is not looked at.
AfterConvertUnchecked(f, out, err) ==
    [f EXCEPT !.pc = "calculate", !.postfix = out, !.j = 1, !.vstack = <<>>]

\* Calc after convertToPostfix returned (out, err): an error ends Calc,
\* otherwise calculate is entered with the postfix sequence.
AfterConvert(f, out, err) ==
    IF err # Nil
    THEN Return(f, Zero, err)
    ELSE [f EXCEPT !.pc = "calculate", !.postfix = out,
                   !.j = 1, !.vstack = <<>>]

\* token == "("
ConvLeftParenStep(f) ==
    [f EXCEPT !.stack = Append(f.stack, f.tokens[f.i]), !.i = f.i + 1]

\* Mutant: the operators above the "(" are not popped.
PopToParenNone(stack, output) == [stack |-> stack, output |-> output]

\* for len(stack) > 0 && top != "(" { output = append(output, top); pop }
RECURSIVE PopToParen(_, _)
PopToParen(stack, output) ==
    IF Len(stack) > 0 /\ Top(stack) # "("
    THEN PopToParen(Pop(stack), Append(output, Top(stack)))
    ELSE [stack |-> stack, output |-> output]

NoOpeningParen(stack) == Len(stack) = 0 \/ Top(stack) # "("

\* token == ")"
ConvRightParenStep(f) ==
    LET r == PopToParen(f.stack, f.output)
    IN  IF NoOpeningParen(r.stack)
        THEN AfterConvert([f EXCEPT !.stack = r.stack, !.output = r.output],
                          <<>>, ErrExpressionSyntax)
        ELSE IF Len(r.stack) = 0
        THEN Panic(f)
        ELSE [f EXCEPT !.stack = Pop(r.stack), !.output = r.output,
                       !.i = f.i + 1]

\* Mutant: operators of equal precedence are not popped.
PopsBeforeStrict(token, top) == precedence(token) < precedence(top)

\* The operator on top of the stack is popped before token is pushed.
PopsBefore(token, top) == precedence(token) <= precedence(top)

RECURSIVE PopOperators(_, _, _)
PopOperators(token, stack, output) ==
    IF Len(stack) > 0 /\ Top(stack) # "(" /\ PopsBefore(token, Top(stack))
    THEN PopOperators(token, Pop(stack), Append(output, Top(stack)))
    ELSE [stack |-> stack, output |-> output]

\* isOperator(token)
ConvOperatorStep(f) ==
    LET r == PopOperators(f.tokens[f.i], f.stack, f.output)
    IN  [f EXCEPT !.stack = Append(r.stack, f.tokens[f.i]),
                  !.output = r.output, !.i = f.i + 1]

\* any other token is taken for a number
ConvOperandStep(f) ==
    [f EXCEPT !.output = Append(f.output, f.tokens[f.i]), !.i = f.i + 1]

\* Mutant: a "(" left on the stack goes to the output like an operator.
RECURSIVE DrainUnchecked(_, _)
DrainUnchecked(stack, output) ==
    IF Len(stack) > 0
    THEN DrainUnchecked(Pop(stack), Append(output, Top(stack)))
    ELSE [stack |-> stack, output |-> output, err |-> Nil]

\* The loop after the tokens: the rest of the stack goes to the output,
\* a "(" left on it is an error.
RECURSIVE Drain(_, _)
Drain(stack, output) ==
    IF Len(stack) > 0
    THEN IF Top(stack) = "("
         THEN [stack |-> stack, output |-> output, err |-> ErrExpressionSyntax]
         ELSE Drain(Pop(stack), Append(output, Top(stack)))
    ELSE [stack |-> stack, output |-> output, err |-> Nil]

ConvDrainStep(f) ==
    LET r == Drain(f.stack, f.output)
    IN  AfterConvert([f EXCEPT !.stack = r.stack, !.output = r.output],
                     IF r.err = Nil THEN r.output ELSE <<>>, r.err)

(***************************************************************************)
(* calculate.                                                              *)
(***************************************************************************)
\* Calc after calculate returned (value, err).
AfterCalculate(f, value, err) ==
    IF err # Nil THEN Return(f, Zero, err) ELSE Return(f, value, Nil)

\* Mutant: the check asks for one value only.
NeedsMoreOperandsOffByOne(stack) == Len(stack) < 1

NeedsMoreOperands(stack) == Len(stack) < 2

\* Mutant: b <= 0 for b == 0.
IsZeroOrNegative(b) == b.num <= 0

IsZero(b) == b.num = 0

\* switch token, with b and a already taken off the stack (rest)
ApplyOperator(f, token, a, b, rest) ==
    LET g == [f EXCEPT !.vstack = rest]
        push(v) == [g EXCEPT !.vstack = Append(rest, v), !.j = f.j + 1]
    IN  CASE token = "+" -> push(Add(a, b))
          [] token = "-" -> push(Sub(a, b))
          [] token = "*" -> push(Mul(a, b))
          [] token = "/" -> IF IsZero(b)
                            THEN AfterCalculate(g, Zero, ErrDivisionByZero)
                            ELSE push(Quo(a, b))
          [] OTHER -> AfterCalculate(g, Zero, ErrExpressionSyntax)

\* isOperator(token)
CalcOperatorStep(f) ==
    LET n == Len(f.vstack)
    IN  IF NeedsMoreOperands(f.vstack)
        THEN AfterCalculate(f, Zero, ErrExpressionSyntax)
        ELSE IF n - 1 < 1 \/ n - 2 < 0
        THEN Panic(f)
        ELSE ApplyOperator(f, f.postfix[f.j], f.vstack[n - 1], f.vstack[n],
                           SubSeq(f.vstack, 1, n - 2))

\* any other token is parsed as a number
CalcOperandStep(f) ==
    IF ~ParseFloatOk(f.postfix[f.j])
    THEN AfterCalculate(f, Zero, ErrExpressionSyntax)
    ELSE [f EXCEPT !.vstack = Append(f.vstack, ParseFloat(f.postfix[f.j])),
                   !.j = f.j + 1]

\* Mutant: only an empty stack is refused.
WrongValueCountOnlyEmpty(stack) == Len(stack) = 0

WrongValueCount(stack) == Len(stack) # 1

\* after the loop of calculate
CalcReturnStep(f) ==
    IF WrongValueCount(f.vstack)
    THEN AfterCalculate(f, Zero, ErrInvalidExpression)
    ELSE IF Len(f.vstack) < 1
    THEN Panic(f)
    ELSE AfterCalculate(f, f.vstack[1], Nil)

(***************************************************************************)
(* Actions: one step of invocation p.                                      *)
(***************************************************************************)
Update(p, g) ==
    /\ calls' = [calls EXCEPT ![p] = g]
    /\ UNCHANGED operations

InConvertLoop(f) == f.pc = "convertToPostfix" /\ f.i <= Len(f.tokens)

InCalculateLoop(f) == f.pc = "calculate" /\ f.j <= Len(f.postfix)

AtLeftParen(f) == InConvertLoop(f) /\ f.tokens[f.i] = "("

AtRightParen(f) == InConvertLoop(f) /\ f.tokens[f.i] = ")"

AtOperator(f) ==
    /\ InConvertLoop(f)
    /\ f.tokens[f.i] \notin {"(", ")"}
    /\ isOperator(f.tokens[f.i])

AtOperand(f) ==
    /\ InConvertLoop(f)
    /\ f.tokens[f.i] \notin {"(", ")"}
    /\ ~isOperator(f.tokens[f.i])

AfterTokens(f) == f.pc = "convertToPostfix" /\ f.i > Len(f.tokens)

AtPostfixOperator(f) == InCalculateLoop(f) /\ isOperator(f.postfix[f.j])

AtPostfixOperand(f) == InCalculateLoop(f) /\ ~isOperator(f.postfix[f.j])

AfterPostfix(f) == f.pc = "calculate" /\ f.j > Len(f.postfix)

CalcEntry(p) ==
    /\ calls[p].pc = "Calc"
    /\ Update(p, CalcEntryStep(calls[p]))

ConvLeftParen(p) ==
    /\ AtLeftParen(calls[p])
    /\ Update(p, ConvLeftParenStep(calls[p]))

ConvRightParen(p) ==
    /\ AtRightParen(calls[p])
    /\ Update(p, ConvRightParenStep(calls[p]))

ConvOperator(p) ==
    /\ AtOperator(calls[p])
    /\ Update(p, ConvOperatorStep(calls[p]))

\* Mutant: output is a package-level variable, written by every invocation.
ConvOperandShared(p) ==
    /\ AtOperand(calls[p])
    /\ calls' = [q \in Procs |->
                   IF q = p THEN ConvOperandStep(calls[p])
                   ELSE [calls[q] EXCEPT !.output = ConvOperandStep(calls[p]).output]]
    /\ UNCHANGED operations

ConvOperand(p) ==
    /\ AtOperand(calls[p])
    /\ Update(p, ConvOperandStep(calls[p]))

ConvDrain(p) ==
    /\ AfterTokens(calls[p])
    /\ Update(p, ConvDrainStep(calls[p]))

CalcOperator(p) ==
    /\ AtPostfixOperator(calls[p])
    /\ Update(p, CalcOperatorStep(calls[p]))

CalcOperand(p) ==
    /\ AtPostfixOperand(calls[p])
    /\ Update(p, CalcOperandStep(calls[p]))

CalcReturn(p) ==
    /\ AfterPostfix(calls[p])
    /\ Update(p, CalcReturnStep(calls[p]))

Next ==
    \E p \in Procs :
        \/ CalcEntry(p)
        \/ ConvLeftParen(p)
        \/ ConvRightParen(p)
        \/ ConvOperator(p)
        \/ ConvOperand(p)
        \/ ConvDrain(p)
        \/ CalcOperator(p)
        \/ CalcOperand(p)
        \/ CalcReturn(p)

(***************************************************************************)
(* Inputs.                                                                 *)
(***************************************************************************)
Strings(n) == UNION {[1..k -> Alphabet] : k \in 0..n}

InfixOperators == {"+", "-", "*", "/"}

\* The well-formed infix expressions of exactly n characters.
RECURSIVE InfixExprs(_)
InfixExprs(n) ==
    IF n <= 0 THEN {}
    ELSE IF n = 1 THEN {<<d>> : d \in InfixDigits}
    ELSE {<<"(">> \o e \o <<")">> : e \in InfixExprs(n - 2)}
         \cup UNION {{a \o <<o>> \o b : a \in InfixExprs(k),
                                        b \in InfixExprs(n - 1 - k),
                                        o \in InfixOperators} : k \in 1..(n - 2)}

Examples ==
    {<<"2", "*", "3", "-", "4">>,
     <<"(", "2", "+", "3", ")", "*", "4">>,
     <<"8", "-", "4", "-", "2">>,
     <<"1", "0", "/", "0">>,
     <<"(", "1", "/", "0">>,
     <<"1", Tab, "+", "1">>,
     <<"1", Space, "+", Space, "1">>,
     <<"1", "+", "1", ")">>,
     <<TwoByteChar, TwoByteChar>>}

ParenAlphabet == {"(", ")", "1", "+"}

\* Every sequence of at most MaxParenLen characters over ParenAlphabet.
ParenStrings == UNION {[1..k -> ParenAlphabet] : k \in 0..MaxParenLen}

Inputs ==
    Strings(MaxLen) \cup UNION {InfixExprs(n) : n \in 1..MaxInfixLen}
        \cup ParenStrings \cup Examples

Init ==
    /\ \E e \in Inputs :
          calls = [p \in Procs |-> IF p = 1 THEN NewFrame(e) ELSE Idle]
    /\ operations = OperationsTable

\* One invocation of Calc at a time.
Spec == Init /\ [][Next]_vars

\* Every invocation keeps taking steps until it returns.
FairSpec == Spec /\ WF_vars(Next)

ConcInputs ==
    {<<"1", "+", "2">>,
     <<"2", "-", "1", "-", "1">>,
     <<"1", "/", "0">>,
     <<"(", "1", "/", "0">>,
     <<"1", Space, "2">>,
     <<"(", "2", "+", "1", ")", "*", "2">>}

InitConc ==
    /\ calls \in [Procs -> {NewFrame(e) : e \in ConcInputs}]
    /\ operations = OperationsTable

\* NumCalls invocations of Calc, their steps interleaved in any order.
SpecConc == InitConc /\ [][Next]_vars

(***************************************************************************)
(* Calc run alone, from entry to return: the steps above, applied in       *)
(* program order.                                                          *)
(***************************************************************************)
StepOf(f) ==
    CASE f.pc = "Calc"        -> CalcEntryStep(f)
      [] AtLeftParen(f)       -> ConvLeftParenStep(f)
      [] AtRightParen(f)      -> ConvRightParenStep(f)
      [] AtOperator(f)        -> ConvOperatorStep(f)
      [] AtOperand(f)         -> ConvOperandStep(f)
      [] AfterTokens(f)       -> ConvDrainStep(f)
      [] AtPostfixOperator(f) -> CalcOperatorStep(f)
      [] AtPostfixOperand(f)  -> CalcOperandStep(f)
      [] AfterPostfix(f)      -> CalcReturnStep(f)

RECURSIVE Run(_)
Run(f) == IF f.pc \in {"done", "panic", "idle"} THEN f ELSE Run(StepOf(f))

\* What Calc(expression) gives when nothing else runs.
Outcome(f) == [panicked |-> f.pc = "panic", result |-> f.result, err |-> f.err]

Alone(expression) == Outcome(Run(NewFrame(expression)))

(***************************************************************************)
(* The reference the claims are stated against: well-formed infix          *)
(* expressions and their value under the standard rules, defined on the    *)
(* expression's structure and not by the program's algorithm.              *)
(***************************************************************************)
Additive == {"+", "-"}

Multiplicative == {"*", "/"}

\* Number of "(" minus number of ")" among the first k characters of s.
RECURSIVE ParenBalance(_, _)
ParenBalance(s, k) ==
    IF k = 0 THEN 0
    ELSE ParenBalance(s, k - 1)
         + (IF s[k] = "(" THEN 1 ELSE IF s[k] = ")" THEN -1 ELSE 0)

\* E ::= digit | ( E ) | E op E
RECURSIVE WellFormed(_)
WellFormed(s) ==
    IF Len(s) = 0 THEN FALSE
    ELSE IF Len(s) = 1 THEN s[1] \in Digits
    ELSE \/ /\ s[1] = "(" /\ s[Len(s)] = ")"
            /\ WellFormed(SubSeq(s, 2, Len(s) - 1))
         \/ \E k \in 2..(Len(s) - 1) :
               /\ s[k] \in Additive \cup Multiplicative
               /\ WellFormed(SubSeq(s, 1, k - 1))
               /\ WellFormed(SubSeq(s, k + 1, Len(s)))

\* The positions of the operators of `ops' outside every parenthesis.
OuterOperators(s, ops) ==
    {k \in 1..Len(s) : s[k] \in ops /\ ParenBalance(s, k) = 0}

Max(S) == CHOOSE x \in S : \A y \in S : y <= x

\* The operator applied last: the rightmost + or - outside parentheses,
\* or with none of these the rightmost * or /; 0 when there is none.
MainOperator(s) ==
    IF OuterOperators(s, Additive) # {} THEN Max(OuterOperators(s, Additive))
    ELSE IF OuterOperators(s, Multiplicative) # {}
    THEN Max(OuterOperators(s, Multiplicative))
    ELSE 0

\* The value of a well-formed expression: [ok, v], ok false when a divisor
\* is zero.
Defined(v) == [ok |-> TRUE, v |-> v]

Undefined == [ok |-> FALSE, v |-> Zero]

RECURSIVE Value(_)
Value(s) ==
    IF Len(s) = 1 THEN Defined(Rat(DigitValue(s[1]), 1))
    ELSE IF MainOperator(s) = 0 THEN Value(SubSeq(s, 2, Len(s) - 1))
    ELSE LET k == MainOperator(s)
             a == Value(SubSeq(s, 1, k - 1))
             b == Value(SubSeq(s, k + 1, Len(s)))
         IN  IF ~a.ok \/ ~b.ok THEN Undefined
             ELSE CASE s[k] = "+" -> Defined(Add(a.v, b.v))
                    [] s[k] = "-" -> Defined(Sub(a.v, b.v))
                    [] s[k] = "*" -> Defined(Mul(a.v, b.v))
                    [] s[k] = "/" -> IF b.v.num = 0 THEN Undefined
                                     ELSE Defined(Quo(a.v, b.v))

Returned(f) == f.pc = "done"

(***************************************************************************)
(* C1: for every well-formed infix expression of at least 3 characters     *)
(* (single-digit operands, + - * /, matched parentheses) in which no       *)
(* divisor evaluates to zero, Calc returns a nil error and the value of    *)
(* the expression under the standard rules: the operators * and / bind    *)
(* tighter than + and -, operators of equal precedence group left to       *)
(* right, parentheses override precedence.                                 *)
(* In particular Calc("2*3-4") = 2, Calc("(2+3)*4") = 20 and               *)
(* Calc("8-4-2") = 2.                                                      *)
(***************************************************************************)
C1_ValueOfWellFormed ==
    \A p \in Procs :
        LET f == calls[p]
        IN  Returned(f) =>
              /\ (/\ WellFormed(f.expression)
                  /\ Len(f.expression) >= 3
                  /\ Value(f.expression).ok)
                 => f.err = Nil /\ f.result = Value(f.expression).v
              /\ f.expression = <<"2", "*", "3", "-", "4">>
                 => f.err = Nil /\ f.result = Rat(2, 1)
              /\ f.expression = <<"(", "2", "+", "3", ")", "*", "4">>
                 => f.err = Nil /\ f.result = Rat(20, 1)
              /\ f.expression = <<"8", "-", "4", "-", "2">>
                 => f.err = Nil /\ f.result = Rat(2, 1)

\* Calc("1+2*2-1") has returned 4: precedence and grouping to the left.
C1_Witness ==
    /\ Returned(calls[1])
    /\ calls[1].expression = <<"1", "+", "2", "*", "2", "-", "1">>
    /\ WellFormed(calls[1].expression)
    /\ calls[1].err = Nil
    /\ calls[1].result = Rat(4, 1)

\* Invocation f is about to process "/" with a zero divisor on top.
DividesByZero(f) ==
    /\ InCalculateLoop(f)
    /\ f.postfix[f.j] = "/"
    /\ Len(f.vstack) >= 2
    /\ Top(f.vstack).num = 0

(***************************************************************************)
(* C2: when calculate processes a "/" token with at least two values on    *)
(* the value stack and the divisor b on top of the stack is 0, it returns  *)
(* DivisionByZero whatever the dividend a is, and pushes no value;         *)
(* DivisionByZero is returned in no other situation.  In particular        *)
(* Calc("10/0") returns DivisionByZero.                                    *)
(***************************************************************************)
C2_DivisionByZero ==
    [][\A p \in Procs :
           calls'[p] # calls[p] =>
             /\ DividesByZero(calls[p])
                => /\ calls'[p].pc = "done"
                   /\ calls'[p].err = ErrDivisionByZero
                   /\ calls'[p].result = Zero
                   /\ calls'[p].vstack = SubSeq(calls[p].vstack, 1, Len(calls[p].vstack) - 2)
             /\ calls'[p].err = ErrDivisionByZero => DividesByZero(calls[p])
             /\ (/\ calls'[p].pc = "done"
                 /\ calls[p].expression = <<"1", "0", "/", "0">>)
                => calls'[p].err = ErrDivisionByZero]_vars

\* Calc("0/0") has returned DivisionByZero: the dividend was 0 too.
C2_Witness ==
    /\ Returned(calls[1])
    /\ calls[1].postfix = <<"0", "0", "/">>
    /\ calls[1].j = 3
    /\ calls[1].vstack = <<>>
    /\ calls[1].err = ErrDivisionByZero

Whitespace == {Space, Tab}

RECURSIVE StripWhitespace(_)
StripWhitespace(s) ==
    IF s = <<>> THEN <<>>
    ELSE IF Head(s) \in Whitespace THEN StripWhitespace(Tail(s))
    ELSE <<Head(s)>> \o StripWhitespace(Tail(s))

(***************************************************************************)
(* C3, as claimed: Calc fails with SyntaxError for every expression whose  *)
(* length after its whitespace is removed is below 3 symbols; no such      *)
(* expression yields a numeric result or another error kind.               *)
(***************************************************************************)
C3_ShortAfterTrimming ==
    \A p \in Procs :
        (Returned(calls[p]) /\ Len(StripWhitespace(calls[p].expression)) < 3)
        => calls[p].err = ErrExpressionSyntax

(***************************************************************************)
(* C3, amended: Calc fails with SyntaxError for every expression whose     *)
(* raw length, the number of bytes before any whitespace is removed, is    *)
(* below 3, regardless of its content; no such expression yields a numeric *)
(* result or another error kind, and none is tokenized.                    *)
(***************************************************************************)
C3_ShortRawLength ==
    \A p \in Procs :
        (Returned(calls[p]) /\ ByteLen(calls[p].expression) < 3)
        => /\ calls[p].err = ErrExpressionSyntax
           /\ calls[p].result = Zero
           /\ calls[p].i = 0

\* Calc("1+") has returned SyntaxError.
C3_Witness ==
    /\ Returned(calls[1])
    /\ calls[1].expression = <<"1", "+">>
    /\ calls[1].err = ErrExpressionSyntax

(***************************************************************************)
(* Parentheses and postfix sequences, for the claims about them.           *)
(***************************************************************************)
\* Some prefix holds more ")" than "(", or the whole sequence more "(".
Unbalanced(s) ==
    \/ \E k \in 1..Len(s) : ParenBalance(s, k) < 0
    \/ ParenBalance(s, Len(s)) > 0

StdOperators == Additive \cup Multiplicative

\* The depth counter after the first k tokens of a postfix sequence:
\* +1 per operand, -1 net per operator.
RECURSIVE Depth(_, _)
Depth(s, k) ==
    IF k = 0 THEN 0
    ELSE Depth(s, k - 1) + (IF s[k] \in StdOperators THEN -1 ELSE 1)

\* Token k cannot be processed: an operator met at depth below 2, or an
\* operand that is no number.
SyntaxFault(s, k) ==
    IF s[k] \in StdOperators THEN Depth(s, k - 1) < 2 ELSE s[k] \notin Digits

\* The leftmost such token, Len(s) + 1 when there is none.
FirstSyntaxFault(s) ==
    IF \E k \in 1..Len(s) : SyntaxFault(s, k)
    THEN CHOOSE k \in 1..Len(s) :
            SyntaxFault(s, k) /\ \A m \in 1..(k - 1) : ~SyntaxFault(s, m)
    ELSE Len(s) + 1

ValidPostfix(s) ==
    /\ \A k \in 1..Len(s) : s[k] \in StdOperators => Depth(s, k - 1) >= 2
    /\ Depth(s, Len(s)) = 1

Errors == {ErrExpressionSyntax, ErrDivisionByZero, ErrInvalidExpression}

(***************************************************************************)
(* C4: Calc surfaces exactly one error per failed evaluation, the first    *)
(* met in the order length check, convertToPostfix, calculate: when an     *)
(* earlier stage fails no later stage runs and its error is not reported   *)
(* (Calc("(1/0") gives SyntaxError, not DivisionByZero); within calculate  *)
(* the error is the one raised at the leftmost failing postfix token; and  *)
(* the value returned with any error is 0.                                 *)
(***************************************************************************)
C4_FirstErrorWins ==
    \A p \in Procs :
        LET f == calls[p]
            short == ByteLen(f.expression) < 3
            unbalanced == Unbalanced(Tokenize(f.expression))
            k == FirstSyntaxFault(f.postfix)
        IN  (Returned(f) /\ f.err # Nil) =>
              /\ f.err \in Errors
              /\ f.result = Zero
              /\ short => f.err = ErrExpressionSyntax /\ f.i = 0 /\ f.j = 0
              /\ (~short /\ unbalanced)
                 => f.err = ErrExpressionSyntax /\ f.j = 0 /\ f.vstack = <<>>
              /\ (~short /\ ~unbalanced)
                 => /\ f.j >= 1
                    /\ f.err = ErrExpressionSyntax => f.j = k
                    /\ f.err = ErrDivisionByZero
                       => f.j < k /\ f.postfix[f.j] = "/"
                    /\ f.err = ErrInvalidExpression
                       => f.j = Len(f.postfix) + 1 /\ k = Len(f.postfix) + 1
              /\ f.expression = <<"(", "1", "/", "0">>
                 => f.err = ErrExpressionSyntax

\* Calc("(1/0") has returned SyntaxError and calculate was never entered.
C4_Witness ==
    /\ Returned(calls[1])
    /\ calls[1].expression = <<"(", "1", "/", "0">>
    /\ calls[1].err = ErrExpressionSyntax
    /\ calls[1].j = 0

CalculatorChars == Digits \cup StdOperators \cup {"(", ")"}

OnlyCalculatorChars(s) == \A k \in 1..Len(s) : s[k] \in CalculatorChars

(***************************************************************************)
(* C5: for every expression of digits, + - * / and parentheses only, Calc  *)
(* terminates and returns a number with a nil error or exactly one of      *)
(* SyntaxError, DivisionByZero, InvalidExpression; no step reads or pops   *)
(* an empty stack or indexes a stack out of range (an operator met with    *)
(* fewer than two values on the value stack gives SyntaxError).            *)
(***************************************************************************)
\* No invocation has stopped on an index out of range, and a returned one
\* carries a nil error or one of the three errors with the value 0.
C5_NoFault ==
    \A p \in Procs :
        LET f == calls[p]
        IN  (f.pc # "idle" /\ OnlyCalculatorChars(f.expression)) =>
              /\ f.pc # "panic"
              /\ Returned(f) => \/ f.err = Nil
                                \/ f.err \in Errors /\ f.result = Zero

\* An operator token met with fewer than two values ends in SyntaxError.
C5_OperatorStep ==
    \A p \in Procs :
        (/\ calls'[p] # calls[p]
         /\ OnlyCalculatorChars(calls[p].expression)
         /\ InCalculateLoop(calls[p])
         /\ calls[p].postfix[calls[p].j] \in StdOperators
         /\ Len(calls[p].vstack) < 2)
        => Returned(calls'[p]) /\ calls'[p].err = ErrExpressionSyntax

\* Every invocation returns.
C5_Terminates ==
    \A p \in Procs :
        (calls[p].pc # "idle" /\ OnlyCalculatorChars(calls[p].expression))
        => <>Returned(calls[p])

\* C5: on the calculator's characters Calc terminates, with a number or one
\* of the three errors, and no step indexes a stack out of range.
C5_TerminatesWithoutFault ==
    /\ []C5_NoFault
    /\ [][C5_OperatorStep]_vars
    /\ C5_Terminates

\* Calc("1++") has returned SyntaxError at the first "+" of the postfix
\* sequence, met with one value on the stack.
C5_Witness ==
    /\ Returned(calls[1])
    /\ OnlyCalculatorChars(calls[1].expression)
    /\ calls[1].postfix = <<"1", "+", "+">>
    /\ calls[1].j = 2
    /\ Len(calls[1].vstack) = 1
    /\ calls[1].err = ErrExpressionSyntax

(***************************************************************************)
(* C6: under any interleaving of the steps of concurrent invocations of    *)
(* Calc, each invocation returns what it returns when run alone on the     *)
(* same expression (so the same expression always gives the same          *)
(* outcome); a step of one invocation changes no other invocation's token  *)
(* list, stacks or output, and the operations table is never written.      *)
(***************************************************************************)
\* Every returned invocation has the outcome of a run alone.
C6_SameAsAlone ==
    /\ operations = OperationsTable
    /\ \A p \in Procs :
          /\ calls[p].pc # "panic"
          /\ Returned(calls[p]) => Outcome(calls[p]) = Alone(calls[p].expression)

\* A step changes the frame of one invocation and nothing else.
C6_OwnStateOnly ==
    /\ operations' = operations
    /\ \A p, q \in Procs :
          (calls'[p] # calls[p] /\ q # p) => calls'[q] = calls[q]

\* C6: interleaved invocations of Calc return what they return alone and
\* write only their own state; the operations table is never written.
C6_Independent == []C6_SameAsAlone /\ [][C6_OwnStateOnly]_vars

\* Two invocations on different expressions have both returned, one with
\* DivisionByZero and one with 3, while the steps of both were interleaved.
C6_Witness ==
    /\ Returned(calls[1]) /\ Returned(calls[2])
    /\ calls[1].expression = <<"1", "/", "0">>
    /\ calls[1].err = ErrDivisionByZero
    /\ calls[2].expression = <<"1", "+", "2">>
    /\ calls[2].err = Nil /\ calls[2].result = Rat(3, 1)

(***************************************************************************)
(* C7: before tokenization Calc removes all whitespace (spaces, tabs,      *)
(* newlines), so every token handed to convertToPostfix is one             *)
(* non-whitespace character, and the outcome of Calc does not depend on    *)
(* whitespace placed between symbols.                                      *)
(***************************************************************************)
C7_WhitespaceRemoved ==
    \A p \in Procs :
        LET f == calls[p]
        IN  /\ f.i >= 1 => \A k \in 1..Len(f.tokens) : f.tokens[k] \notin Whitespace
            /\ Returned(f) => Outcome(f) = Alone(StripWhitespace(f.expression))

NumericOperands(s) == \A k \in 1..Len(s) : s[k] \in StdOperators \cup Digits

(***************************************************************************)
(* C8, as claimed: whenever convertToPostfix returns without SyntaxError   *)
(* its output is a valid postfix sequence (every operator met at depth at  *)
(* least 2, final depth 1), so calculate on it with numeric operands can   *)
(* fail only with DivisionByZero.                                          *)
(***************************************************************************)
C8_ValidPostfixAlways ==
    \A p \in Procs :
        LET f == calls[p]
        IN  f.j >= 1 =>
              /\ ValidPostfix(f.postfix)
              /\ (Returned(f) /\ NumericOperands(f.postfix) /\ f.err # Nil)
                 => f.err = ErrDivisionByZero

(***************************************************************************)
(* C8, amended: whenever the tokens are a well-formed infix expression     *)
(* (single-digit operands, binary operators + - * /, matched parentheses)  *)
(* convertToPostfix returns without SyntaxError and its output is a valid  *)
(* postfix sequence, so calculate on it can fail only with                 *)
(* DivisionByZero.                                                         *)
(***************************************************************************)
C8_ValidPostfixOfWellFormed ==
    \A p \in Procs :
        LET f == calls[p]
        IN  (f.i >= 1 /\ WellFormed(f.tokens)) =>
              /\ f.pc \in {"calculate", "done"} => f.j >= 1
              /\ f.j >= 1 => ValidPostfix(f.postfix)
              /\ Returned(f) => f.err \in {Nil, ErrDivisionByZero}

\* calculate was entered with the postfix form of "(1+2)*2".
C8_Witness ==
    /\ calls[1].pc = "calculate"
    /\ calls[1].j = 1
    /\ calls[1].tokens = <<"(", "1", "+", "2", ")", "*", "2">>
    /\ WellFormed(calls[1].tokens)
    /\ calls[1].postfix = <<"1", "2", "+", "2", "*">>

Count(s, c) == Cardinality({k \in 1..Len(s) : s[k] = c})

Chars(s) == {s[k] : k \in 1..Len(s)}

\* convertToPostfix has returned in frame f.
Converted(f) == f.i >= 1 /\ f.pc \in {"calculate", "done"}

(***************************************************************************)
(* C9: convertToPostfix fails with SyntaxError if and only if the          *)
(* parentheses of the token sequence are unbalanced (some prefix holds     *)
(* more ")" than "(", or the whole sequence more "(" than ")"); on         *)
(* success, at any nesting depth, the operator stack is empty at return    *)
(* and the output holds no parenthesis and exactly the operand and         *)
(* operator tokens of the input.                                           *)
(***************************************************************************)
C9_SyntaxErrorIffUnbalanced ==
    \A p \in Procs :
        LET f == calls[p]
        IN  Converted(f) =>
              /\ (f.j = 0) <=> Unbalanced(f.tokens)
              /\ f.j = 0 => f.err = ErrExpressionSyntax
              /\ f.j >= 1 =>
                   /\ f.stack = <<>>
                   /\ \A c \in Chars(f.tokens) \cup Chars(f.postfix) :
                         Count(f.postfix, c) =
                            IF c \in {"(", ")"} THEN 0 ELSE Count(f.tokens, c)

\* convertToPostfix has returned the output of "((1)+1)", nested two deep.
C9_Witness ==
    /\ Converted(calls[1])
    /\ calls[1].tokens = <<"(", "(", "1", ")", "+", "1", ")">>
    /\ calls[1].j >= 1
    /\ calls[1].stack = <<>>
    /\ calls[1].postfix = <<"1", "1", "+">>

(***************************************************************************)
(* C10: calculate returns InvalidExpression exactly when every postfix     *)
(* token was consumed without error and the value stack then holds a       *)
(* number of values other than one (none for an empty token sequence, two  *)
(* or more when operands outnumber operators by more than one, as for      *)
(* "1 2"); on success the value stack holds exactly one element, which is  *)
(* the result.                                                             *)
(***************************************************************************)
C10_InvalidExpression ==
    \A p \in Procs :
        LET f == calls[p]
            consumed == f.j = Len(f.postfix) + 1
        IN  (Returned(f) /\ f.j >= 1) =>
              /\ f.err = ErrInvalidExpression
                 <=> (consumed /\ Len(f.vstack) # 1)
              /\ (consumed /\ f.postfix = <<>>)
                 => f.err = ErrInvalidExpression /\ f.vstack = <<>>
              /\ f.expression = <<"1", Space, "2">>
                 => f.err = ErrInvalidExpression /\ Len(f.vstack) = 2
              /\ f.err = Nil
                 => consumed /\ Len(f.vstack) = 1 /\ f.result = f.vstack[1]

\* Calc("1 2") has returned InvalidExpression with two values on the stack.
C10_Witness ==
    /\ Returned(calls[1])
    /\ calls[1].expression = <<"1", Space, "2">>
    /\ calls[1].j = 3
    /\ Len(calls[1].vstack) = 2
    /\ calls[1].err = ErrInvalidExpression

=============================================================================
